---- MODULE Spec2Model ----
(***************************************************************************)
(* Orchestration core of the signage generator: the configuration schema,  *)
(* the source contract (BaseSource.execute), the batch PluginExecutor and  *)
(* the daemon SignageScheduler.                                            *)
(*                                                                         *)
(* The specifications share the variables:                                 *)
(*   SpecExec   - load a document, then PluginExecutor.run over it         *)
(*   SpecSched  - calls of SignageScheduler._check_and_run_* over time     *)
(*   SpecRender - the rendering hints _execute_source applies to content   *)
(*   SpecLoad   - load of a definition with any schedule and config value  *)
(*   SpecEnv    - load, then run while the environment changes             *)
(*   SpecReg    - SourceRegistry.register / create / list_types            *)
(*   SpecDaemon - SignageScheduler.run_daemon under KeyboardInterrupt      *)
(***************************************************************************)
EXTENDS Integers, Sequences, FiniteSets, TLC

VARIABLES
    document,      \* raw `sources` list handed to the SourcesConfig constructor
    config,        \* PluginExecutor.config.sources once loaded
    loadState,     \* "unloaded" | "loaded" | "failed" | "absent" (load gave None)
    loadError,     \* the set printed in "Duplicate source IDs found: {...}"
    pc,            \* position of PluginExecutor.run: "idle" | "running" | "returned"
    source_filter, \* argument of the current run
    sources_to_run,\* the filtered list built at the start of run
    idx,           \* position of the for loop over sources_to_run
    attempts,      \* one record per _execute_source call of the current run
    logRecords,    \* logger output of _execute_source: [id, level, kind]
    rendered,      \* filenames handed to a renderer, in order
    clock,         \* datetime.utcnow() as seen by BaseSource.execute
    runs,          \* number of run() calls started
    last_run,      \* SignageScheduler.last_run
    now,           \* datetime.now() as seen by the scheduler (seconds)
    SEAHAWKS_ENABLED, \* Config.SEAHAWKS_ENABLED
    lastCall,      \* observation of the latest _check_and_run_* call
    calls,         \* number of _check_and_run_* calls made
    section,       \* the `rendering` mapping of a definition as written
    task_content,  \* hints of the content fetch_data returned
    forwarded,     \* hints of the content handed to the renderer
    environ,       \* os.environ
    loadException, \* what made load raise: None | "yaml" | "schedule" | "sources" | "env"
    envError,      \* variable named by "Environment variable ... not set"
    registry,      \* SourceRegistry._sources, in insertion order
    regResult,     \* outcome of the latest registry call
    listed,        \* a list a caller got from list_types
    dpc,           \* position of run_daemon
    running,       \* SignageScheduler.running
    inflight,      \* generator call in progress
    aborted,       \* generator calls cut short
    file,          \* sources.yaml: "absent" | "malformed" | "present"
    argv,          \* flags on the command line of generate_signage.py
    mode,          \* what main() went on to do
    rpc,           \* position of APIClient._make_request
    max_retries,   \* APIClient.max_retries
    attempt,       \* loop variable of _make_request
    sleeps,        \* arguments of the time.sleep calls of _make_request
    outcomes,      \* what each session.request of the call did
    response,      \* what _make_request returned
    cache_file,    \* TeslaFleetClient.VEHICLE_CACHE_FILE as json.load reads it
    tesla_now,     \* datetime.now() as seen by _cache_vehicle_data
    fetches,       \* the calls made on the Tesla client: [op, id, returned, at]
    output_dir,    \* profile.output_dir: stem |-> version written
    archive_dir,   \* profile.archive_dir: set of [name, of, version, mtime]
    out_now,       \* datetime.now() as seen by the output manager
    saves,         \* number of save_image calls made
    mig_environ,   \* os.environ as ConfigMigrator.migrate reads it
    mig_document,  \* what migrate() returned
    mig_result     \* what SourcesConfig made of it

execVars  == <<document, config, loadState, loadError, pc, source_filter,
               sources_to_run, idx, attempts, logRecords,
               rendered, clock, runs>>
schedVars == <<last_run, now, SEAHAWKS_ENABLED, lastCall, calls>>
renderVars == <<section, task_content, forwarded>>
envVars    == <<environ, loadException, envError>>
regVars    == <<registry, regResult, listed>>
daemonVars == <<dpc, running, inflight, aborted>>
auxVars    == <<renderVars, envVars, regVars, daemonVars>>
mainVars   == <<file, argv, mode>>
reqVars    == <<rpc, max_retries, attempt, sleeps, outcomes, response>>
teslaVars  == <<cache_file, tesla_now, fetches>>
outVars    == <<output_dir, archive_dir, out_now, saves>>
migVars    == <<mig_environ, mig_document, mig_result>>
moreVars   == <<reqVars, teslaVars, outVars, migVars>>
extVars    == <<mainVars, moreVars>>
vars      == <<execVars, schedVars, auxVars, extVars>>

(***************************************************************************)
(* Bounds of the model                                                     *)
(***************************************************************************)
MaxSources == 3      \* longest document
MaxClock   == 31     \* utcnow() stops advancing here (seconds)
MaxRuns    == 1      \* run() calls per behaviour
MaxCalls   == 3      \* _check_and_run_* calls per behaviour

\* Python None for optional strings, optional timestamps and optional content
None      == "None"
NoTime    == -1
NoContent == [kind |-> "None"]
Content(n) == [kind |-> "content", lines |-> n]

Ids       == {"a", "b", "c"}
Types     == {"weather", "bogus"}
Filters   == {None, "a", "zz"}

\* a str as the sequence of its characters, and the None a lookup may give
Str(s)    == [type |-> "str", s |-> s]
IntValue(n) == [type |-> "int", n |-> n]
NoneValue == [type |-> "NoneType"]

\* a cron expression as the sequence of its whitespace-separated fields
EveryMinute == <<"*", "*", "*", "*", "*">>

\* SourceConfig, reduced to the fields the loader, run() and _execute_source
\* read; these definitions carry one schedule and an empty config mapping
SourceConfig == [id : Ids, type : Types, enabled : BOOLEAN,
                 schedule : {EveryMinute}, config : {<<>>}]

RECURSIVE SeqsUpTo(_, _)
SeqsUpTo(S, n) ==
    IF n = 0 THEN {<<>>}
    ELSE LET shorter == SeqsUpTo(S, n - 1)
         IN  shorter \cup {Append(s, x) : s \in {t \in shorter : Len(t) = n - 1}, x \in S}

(***************************************************************************)
(* SourceRegistry                                                          *)
(***************************************************************************)
\* keys registered by importing src.plugins.sources
registered_types ==
    {"speedtest", "stock", "ferry", "ambient_weather", "ambient_sensors",
     "system_health", "weather", "ferry_map", "football", "tesla", "nfl"}

\* _sources once src.plugins.sources is imported, in the order of its imports
imported ==
    <<[type |-> "ambient_weather", class |-> "AmbientWeatherSource"],
      [type |-> "ambient_sensors", class |-> "AmbientSensorsSource"],
      [type |-> "ferry_map",       class |-> "FerryMapSource"],
      [type |-> "ferry",           class |-> "FerrySource"],
      [type |-> "football",        class |-> "FootballSource"],
      [type |-> "nfl",             class |-> "NFLSource"],
      [type |-> "speedtest",       class |-> "SpeedtestSource"],
      [type |-> "stock",           class |-> "StockSource"],
      [type |-> "system_health",   class |-> "SystemHealthSource"],
      [type |-> "tesla",           class |-> "TeslaSource"],
      [type |-> "weather",         class |-> "WeatherSource"]>>

\* cls._sources.keys() as a set, list(cls._sources.keys()), cls._sources[k]
keys(d)      == {d[i].type : i \in 1..Len(d)}
key_list(d)  == [i \in 1..Len(d) |-> d[i].type]
lookup(d, k) == d[CHOOSE i \in 1..Len(d) : d[i].type = k].class

\* variant: an unknown key yields an instance instead of raising
create_raises_never(source_type) == FALSE

\* SourceRegistry.get raises ValueError for an unknown key, and so does create
create_raises(source_type) == source_type \notin keys(registry)

\* the keys and classes the registry calls are made with; NotASource does not
\* inherit from BaseSource
RegTypes   == {"weather", "stock", "tesla"}
RegClasses == {"WeatherSource", "StockSource", "NotASource"}
issubclass_BaseSource(source_class) == source_class # "NotASource"

NoResult == [op |-> None]

\* variant: a key already present is overwritten
register_overwriting(source_type, source_class) ==
    /\ issubclass_BaseSource(source_class)
    /\ registry' = IF source_type \in keys(registry)
                   THEN [i \in 1..Len(registry) |->
                           IF registry[i].type = source_type
                           THEN [type |-> source_type, class |-> source_class]
                           ELSE registry[i]]
                   ELSE Append(registry, [type |-> source_type, class |-> source_class])
    /\ regResult' = [op |-> "register", type |-> source_type,
                     class |-> source_class, raised |-> None]

\* the decorator SourceRegistry.register(source_type) applied to source_class
register(source_type, source_class) ==
    IF source_type \in keys(registry)
    THEN /\ regResult' = [op |-> "register", type |-> source_type,
                          class |-> source_class, raised |-> "ValueError"]
         /\ UNCHANGED registry
    ELSE IF ~issubclass_BaseSource(source_class)
    THEN /\ regResult' = [op |-> "register", type |-> source_type,
                          class |-> source_class, raised |-> "TypeError"]
         /\ UNCHANGED registry
    ELSE /\ registry' = Append(registry, [type |-> source_type, class |-> source_class])
         /\ regResult' = [op |-> "register", type |-> source_type,
                          class |-> source_class, raised |-> None]

Register ==
    \E source_type \in RegTypes, source_class \in RegClasses :
        /\ register(source_type, source_class)
        /\ UNCHANGED <<execVars, schedVars, extVars, renderVars, envVars, listed, daemonVars>>

\* variant: the first registered class is instantiated whatever the key
get_first(source_type) == registry[1].class

\* SourceRegistry.get for a registered key
get(source_type) == lookup(registry, source_type)

\* SourceRegistry.create(source_type, source_id, config)
create(source_type, source_id, cfg) ==
    /\ IF source_type \notin keys(registry)
       THEN regResult' = [op |-> "create", type |-> source_type,
                          source_id |-> source_id, config |-> cfg,
                          raised |-> "ValueError", available |-> key_list(registry)]
       ELSE regResult' = [op |-> "create", type |-> source_type,
                          source_id |-> source_id, config |-> cfg, raised |-> None,
                          instance |-> [class |-> get(source_type),
                                        source_id |-> source_id, config |-> cfg]]
    /\ UNCHANGED registry

Create ==
    \E source_type \in RegTypes, source_id \in {"a", "b"} :
        /\ create(source_type, source_id, <<>>)
        /\ UNCHANGED <<execVars, schedVars, extVars, renderVars, envVars, listed, daemonVars>>

\* position of a key in the alphabetical order of the keys that are drawn
rank(k) == CASE k = "stock" -> 1 [] k = "tesla" -> 2 [] k = "weather" -> 3 [] OTHER -> 4

\* SourceRegistry.list_types: list(cls._sources.keys())
list_types == key_list(registry)

ListTypes ==
    /\ listed' = list_types
    /\ regResult' = [op |-> "list_types"]
    /\ UNCHANGED <<execVars, schedVars, extVars, renderVars, envVars, registry, daemonVars>>

\* the caller changes the list it was given
MutateListed ==
    /\ regResult.op = "list_types"
    /\ \/ listed' = Append(listed, "mine")
       \/ listed # <<>> /\ listed' = Tail(listed)
    /\ regResult' = [op |-> "mutate"]
    /\ UNCHANGED <<execVars, schedVars, extVars, renderVars, envVars, registry, daemonVars>>

(***************************************************************************)
(* SourcesConfig.validate_unique_ids                                       *)
(***************************************************************************)
\* ids.count(id)
count(ids, id) == Cardinality({i \in 1..Len(ids) : ids[i] = id})

\* variant: an id is reported only when it occurs more than twice
duplicates_over_two(v) ==
    LET ids == [i \in 1..Len(v) |-> v[i].id]
    IN  {ids[i] : i \in {j \in 1..Len(ids) : count(ids, ids[j]) > 2}}

\* set(duplicates) where duplicates = [id for id in ids if ids.count(id) > 1]
duplicates(v) ==
    LET ids == [i \in 1..Len(v) |-> v[i].id]
    IN  {ids[i] : i \in {j \in 1..Len(ids) : count(ids, ids[j]) > 1}}

(***************************************************************************)
(* BaseSource.execute                                                      *)
(*   validate : "ok" | "raise"         outcome of validate_config()        *)
(*   fetch    : [kind, ...]            outcome of fetch_data()             *)
(*   hook     : "render" | "suppress"  result of _should_render(content)   *)
(*   t0, t1   : the two readings of datetime.utcnow()                      *)
(***************************************************************************)
ValidateOutcomes == {"ok", "raise"}
FetchOutcomes ==
    {[kind |-> "content", lines |-> 0], [kind |-> "content", lines |-> 2],
     [kind |-> "None"],
     [kind |-> "raise", msg |-> "fetch failed"], [kind |-> "raise", msg |-> ""]}
HookOutcomes == {"render", "suppress"}

\* a SourceMetrics that was never produced (SourceRegistry.create raised)
NoMetrics == [source_id |-> None]

\* variants of execute, each differing from it in one place:
\*   okWhenEmpty   - success recorded although no content is returned
\*   errorOnRaise  - FALSE: metrics.error is not set in the except block
\*   errorOnEmpty  - an error text recorded for a None result
\*   stampOnRaise  - FALSE: completed_at/duration not recorded when raising
execute_variant(source_id, validate, fetch, hook, t0, t1,
                okWhenEmpty, errorOnRaise, errorOnEmpty, stampOnRaise) ==
    LET raised  == validate = "raise" \/ fetch.kind = "raise"
        message == IF validate = "raise" THEN "invalid config" ELSE fetch.msg
        fetched == IF fetch.kind = "content" THEN Content(fetch.lines) ELSE NoContent
        content == IF raised THEN NoContent
                   ELSE IF fetched # NoContent /\ hook = "suppress" THEN NoContent
                   ELSE fetched
        stamped == ~raised \/ stampOnRaise
        metrics == [source_id        |-> source_id,
                    started_at       |-> t0,
                    completed_at     |-> IF stamped THEN t1 ELSE NoTime,
                    success          |-> IF raised THEN FALSE
                                         ELSE (content # NoContent \/ okWhenEmpty),
                    error            |-> IF raised
                                         THEN (IF errorOnRaise THEN message ELSE None)
                                         ELSE IF errorOnEmpty /\ content = NoContent
                                         THEN "no data" ELSE None,
                    duration_seconds |-> IF stamped THEN t1 - t0 ELSE NoTime,
                    data_points      |-> IF ~raised /\ content # NoContent
                                         THEN content.lines ELSE 0]
    IN  [content |-> content, metrics |-> metrics]

execute_success_when_empty(source_id, validate, fetch, hook, t0, t1) ==
    execute_variant(source_id, validate, fetch, hook, t0, t1, TRUE, TRUE, FALSE, TRUE)

execute_error_unset(source_id, validate, fetch, hook, t0, t1) ==
    execute_variant(source_id, validate, fetch, hook, t0, t1, FALSE, FALSE, FALSE, TRUE)

execute_error_when_empty(source_id, validate, fetch, hook, t0, t1) ==
    execute_variant(source_id, validate, fetch, hook, t0, t1, FALSE, TRUE, TRUE, TRUE)

execute_no_finally(source_id, validate, fetch, hook, t0, t1) ==
    execute_variant(source_id, validate, fetch, hook, t0, t1, FALSE, TRUE, FALSE, FALSE)

\* variant: the result of _should_render is not consulted
execute_ignoring_hook(source_id, validate, fetch, hook, t0, t1) ==
    execute_variant(source_id, validate, fetch, "render", t0, t1,
                    FALSE, TRUE, FALSE, TRUE)

execute(source_id, validate, fetch, hook, t0, t1) ==
    LET raised  == validate = "raise" \/ fetch.kind = "raise"
        \* str(e)
        message == IF validate = "raise" THEN "invalid config" ELSE fetch.msg
        fetched == IF fetch.kind = "content" THEN Content(fetch.lines) ELSE NoContent
        \* if content and not self._should_render(content): content = None
        content == IF raised THEN NoContent
                   ELSE IF fetched # NoContent /\ hook = "suppress" THEN NoContent
                   ELSE fetched
        metrics == [source_id        |-> source_id,
                    started_at       |-> t0,
                    completed_at     |-> t1,
                    success          |-> IF raised THEN FALSE ELSE content # NoContent,
                    error            |-> IF raised THEN message ELSE None,
                    duration_seconds |-> t1 - t0,
                    data_points      |-> IF ~raised /\ content # NoContent
                                         THEN content.lines ELSE 0]
    IN  [content |-> content, metrics |-> metrics]

(***************************************************************************)
(* SourceConfig.validate_cron                                              *)
(***************************************************************************)
\* the number a cron field denotes, -1 when it is not a number
number(f) ==
    CASE f = "0" -> 0 [] f = "1" -> 1 [] f = "99" -> 99 [] OTHER -> -1

\* ranges of minute, hour, day of month, month, day of week
cron_ranges == <<[lo |-> 0, hi |-> 59], [lo |-> 0, hi |-> 23], [lo |-> 1, hi |-> 31],
                 [lo |-> 1, hi |-> 12], [lo |-> 0, hi |-> 6]>>

\* variant: croniter is not consulted
croniter_accepts_any(v) == TRUE

\* croniter(v) returns instead of raising, for the five-field expressions and
\* the malformed ones that are drawn: five fields, each `*` or a number in
\* the range of its position
croniter_accepts(v) ==
    /\ Len(v) = 5
    /\ \A i \in 1..5 :
          \/ v[i] = "*"
          \/ number(v[i]) \in cron_ranges[i].lo..cron_ranges[i].hi

(***************************************************************************)
(* SourceConfig.expand_env_vars                                            *)
(***************************************************************************)
\* value.startswith(prefix), value.endswith(suffix)
startswith(s, prefix) ==
    Len(s) >= Len(prefix) /\ SubSeq(s, 1, Len(prefix)) = prefix
endswith(s, suffix) ==
    Len(s) >= Len(suffix) /\ SubSeq(s, Len(s) - Len(suffix) + 1, Len(s)) = suffix

\* variant: value[2:]
env_var_with_brace(s) == SubSeq(s, 3, Len(s))

\* value[2:-1]
env_var_of(s) == SubSeq(s, 3, Len(s) - 1)

\* os.getenv(name)
os_getenv(name) == IF name \in DOMAIN environ THEN environ[name] ELSE NoneValue

\* one pass of the loop body of expand_env_vars over a value
expand_value(v) ==
    IF v.type = "str" /\ startswith(v.s, <<"$", "{">>) /\ endswith(v.s, <<"}">>)
    THEN LET env_var        == env_var_of(v.s)
             expanded_value == os_getenv(env_var)
         IN  IF expanded_value = NoneValue
             THEN [kind |-> "raise", env_var |-> env_var]
             ELSE [kind |-> "ok", value |-> expanded_value]
    ELSE [kind |-> "ok", value |-> v]

\* expand_env_vars on a config mapping: the loop raises at the first value
\* whose variable is not set (the mappings drawn have one key), otherwise
\* self.config becomes the mapping of the expanded values
expand_env_vars(cfg) ==
    LET unset == {k \in DOMAIN cfg : expand_value(cfg[k]).kind = "raise"}
    IN  IF unset # {}
        THEN [kind |-> "raise",
              env_var |-> expand_value(cfg[CHOOSE k \in unset : TRUE]).env_var]
        ELSE [kind |-> "ok",
              config |-> [k \in DOMAIN cfg |-> expand_value(cfg[k]).value]]

\* `for source in config.sources: source.expand_env_vars()`
expand_sources(sources) ==
    LET unset == {i \in 1..Len(sources) :
                     expand_env_vars(sources[i].config).kind = "raise"}
        first == CHOOSE i \in unset : \A j \in unset : i <= j
    IN  IF unset # {}
        THEN [kind |-> "raise",
              env_var |-> expand_env_vars(sources[first].config).env_var]
        ELSE [kind |-> "ok",
              sources |-> [i \in 1..Len(sources) |->
                             [sources[i] EXCEPT
                                !.config = expand_env_vars(sources[i].config).config]]]

(***************************************************************************)
(* ConfigLoader.load and the SourcesConfig constructor                     *)
(***************************************************************************)
\* SourcesConfig(document): the field validators of each definition, then
\* validate_unique_ids; then expand_env_vars on each definition
\* variant: a missing file is reported like an unreadable one
load_path_raising(f) ==
    IF f = "present" THEN "validate" ELSE "YAMLError"

\* the part of load before the constructor: None when the path does not
\* exist, yaml.YAMLError from safe_load for a file that is not YAML
load_path(f) ==
    IF f = "absent" THEN None
    ELSE IF f = "malformed" THEN "YAMLError"
    ELSE "validate"

Load ==
    /\ loadState = "unloaded"
    /\ LET invalid == {i \in 1..Len(document) :
                          ~croniter_accepts(document[i].schedule)}
           exp     == expand_sources(document)
       IN  IF load_path(file) = None
           THEN /\ loadState' = "absent"
                /\ UNCHANGED <<loadError, loadException, envError, config>>
           ELSE IF load_path(file) = "YAMLError"
           THEN /\ loadState' = "failed"
                /\ loadException' = "yaml"
                /\ UNCHANGED <<loadError, envError, config>>
           ELSE IF invalid # {}
           THEN /\ loadState' = "failed"
                /\ loadException' = "schedule"
                /\ UNCHANGED <<loadError, envError, config>>
           ELSE IF duplicates(document) # {}
           THEN /\ loadState' = "failed"
                /\ loadException' = "sources"
                /\ loadError' = duplicates(document)
                /\ UNCHANGED <<envError, config>>
           ELSE IF exp.kind = "raise"
           THEN /\ loadState' = "failed"
                /\ loadException' = "env"
                /\ envError' = Str(exp.env_var)
                /\ UNCHANGED <<loadError, config>>
           ELSE /\ loadState' = "loaded"
                /\ config' = exp.sources
                /\ UNCHANGED <<loadError, loadException, envError>>
    /\ UNCHANGED <<document, pc, source_filter, sources_to_run, idx, attempts,
                   logRecords, rendered, clock, runs, schedVars,
                   extVars, renderVars, environ, regVars, daemonVars>>

(***************************************************************************)
(* PluginExecutor.run                                                      *)
(***************************************************************************)
RECURSIVE SelectFrom(_, _, _)
SelectFrom(sources, f, i) ==
    IF i > Len(sources) THEN <<>>
    ELSE LET s == sources[i]
         IN  (IF s.enabled /\ (f = None \/ s.id = f) THEN <<s>> ELSE <<>>)
             \o SelectFrom(sources, f, i + 1)

\* variant: the `source.enabled` test is missing from the comprehension
filter_sources_ignoring_enabled(sources, f) ==
    SelectFrom([i \in 1..Len(sources) |-> [sources[i] EXCEPT !.enabled = TRUE]], f, 1)

\* [source for source in self.config.sources
\*    if source.enabled and (source_filter is None or source.id == source_filter)]
filter_sources(sources, f) == SelectFrom(sources, f, 1)

RunStart(f) ==
    /\ loadState = "loaded"
    /\ pc \in {"idle", "returned"}
    /\ runs < MaxRuns
    /\ runs' = runs + 1
    /\ source_filter' = f
    /\ sources_to_run' = filter_sources(config, f)
    /\ idx' = 1
    /\ attempts' = <<>>
    /\ rendered' = <<>>
    /\ IF filter_sources(config, f) = <<>>
       THEN /\ pc' = "returned"
            /\ logRecords' = <<[id |-> None,
                                level |-> IF f # None THEN "error" ELSE "warning",
                                kind |-> "nothing to run"]>>
       ELSE /\ pc' = "running"
            /\ logRecords' = <<>>
    /\ UNCHANGED <<document, config, loadState, loadError, clock, schedVars, auxVars, extVars>>

\* the calls a source makes only happen when the code reaches them:
\* fetch_data after validate_config returned, _should_render for non-null
\* content, the renderer for content that was not suppressed
NotCalled == "notcalled"
FetchAfter(validate) ==
    IF validate = "ok" THEN FetchOutcomes ELSE {[kind |-> NotCalled]}
HookAfter(fetch) ==
    IF fetch.kind = "content" THEN HookOutcomes ELSE {NotCalled}
RenderAfter(hook) ==
    IF hook = "render" THEN {"ok", "raise"} ELSE {NotCalled}

\* defaults of the schema for the sections the definitions do not carry
RetryConfig_default ==
    [enabled |-> TRUE, max_attempts |-> 3, backoff_seconds |-> <<1, 2, 4>>]
FallbackConfig_default == [use_cached |-> FALSE, max_age_hours |-> 24]
timeout_default == 30

\* seconds a call of execute() may take: none, or one more than the timeout
FetchSeconds == {0, 31}

\* the definition of the document a loaded definition was built from
Written(source_config) ==
    document[CHOOSE i \in 1..Len(document) : document[i].id = source_config.id]

\* variant: the value written in the document is expanded again at each call
handed_config_reexpanded(source_config) ==
    LET again == expand_env_vars(Written(source_config).config)
    IN  IF again.kind = "ok" THEN again.config ELSE source_config.config

\* the `config=source_config.config` argument of SourceRegistry.create
handed_config(source_config) == source_config.config

\* variant: the loop goes on while the execution it started is still running
resume_at_start(t0, t1) == t0

\* `content, metrics = source.execute()` is a call: the executor goes on at
\* the time execute() returned
resume_at(t0, t1) == t1

\* one iteration of `for source_config in sources_to_run: self._execute_source(source_config)`
execute_source(validate, fetch, hook, render, d) ==
    /\ pc = "running"
    /\ idx <= Len(sources_to_run)
    /\ LET source_config == sources_to_run[idx]
           id == source_config.id
       IN  IF create_raises(source_config.type)
           THEN /\ validate = NotCalled /\ fetch = [kind |-> NotCalled]
                /\ hook = NotCalled /\ render = NotCalled /\ d = 0
                /\ attempts' = Append(attempts,
                                 [id |-> id, created |-> FALSE, validate |-> validate,
                                  fetch |-> fetch, hook |-> hook,
                                  config |-> handed_config(source_config),
                                  fetch_calls |-> 0,
                                  content |-> NoContent, metrics |-> NoMetrics])
                /\ logRecords' = Append(logRecords,
                                   [id |-> id, level |-> "error", kind |-> "exception"])
                /\ UNCHANGED <<rendered, clock>>
           ELSE LET t1  == IF clock + d <= MaxClock THEN clock + d ELSE MaxClock
                    res == execute(id, validate, fetch, hook, clock, t1)
                IN  /\ validate \in ValidateOutcomes
                    /\ attempts' = Append(attempts,
                                     [id |-> id, created |-> TRUE, validate |-> validate,
                                      fetch |-> fetch, hook |-> hook,
                                      config |-> handed_config(source_config),
                                      \* execute() calls fetch_data once
                                      fetch_calls |-> IF validate = "ok" THEN 1 ELSE 0,
                                      content |-> res.content, metrics |-> res.metrics])
                    /\ clock' = resume_at(clock, t1)
                    /\ IF ~res.metrics.success
                       THEN /\ logRecords' = Append(logRecords,
                                   [id |-> id, level |-> "error", kind |-> "failed"])
                            /\ UNCHANGED rendered
                       ELSE IF res.content = NoContent
                       THEN /\ logRecords' = Append(logRecords,
                                   [id |-> id, level |-> "info", kind |-> "success"])
                            /\ UNCHANGED rendered
                       ELSE /\ rendered' = Append(rendered, id)
                            /\ logRecords' =
                                 Append(logRecords,
                                   [id |-> id, level |-> "info", kind |-> "success"])
                                 \o (IF render = "raise"
                                     THEN <<[id |-> id, level |-> "error",
                                             kind |-> "exception"]>>
                                     ELSE <<[id |-> id, level |-> "info",
                                             kind |-> "rendered"]>>)
    /\ idx' = idx + 1
    /\ UNCHANGED <<document, config, loadState, loadError, pc, source_filter,
                   sources_to_run, runs, schedVars, auxVars, extVars>>

ExecuteSource ==
    \E validate \in ValidateOutcomes \cup {NotCalled} :
      \E fetch \in FetchAfter(validate) :
        \E hook \in HookAfter(fetch) :
          \E render \in RenderAfter(hook), d \in FetchSeconds :
            execute_source(validate, fetch, hook, render, d)

RunReturn ==
    /\ pc = "running"
    /\ idx > Len(sources_to_run)
    /\ pc' = "returned"
    /\ UNCHANGED <<document, config, loadState, loadError, source_filter,
                   sources_to_run, idx, attempts, logRecords,
                   rendered, clock, runs, schedVars, auxVars, extVars>>

(***************************************************************************)
(* Rendering hints: RenderingConfig and the overrides of _execute_source   *)
(***************************************************************************)
\* a key the `rendering` mapping of the document does not have
Absent == "<absent>"

\* the `rendering` mappings and the hints of task content that are drawn
Sections ==
    [layout           : {Absent, "default", "modern_weather"},
     background       : {Absent, "local", "unsplash", "gradient"},
     background_query : {Absent, "weather/rain"}]
TaskContents ==
    [layout_type      : {"modern_weather", "centered"},
     background_mode  : {"local", "gradient"},
     background_query : {None, "tesla/modelY"}]

\* RenderingConfig built from the mapping: a missing key takes the default of
\* the field (layout "default", background "local", background_query None)
RenderingConfig(raw) ==
    [layout           |-> IF raw.layout = Absent THEN "default" ELSE raw.layout,
     background       |-> IF raw.background = Absent THEN "local" ELSE raw.background,
     background_query |-> IF raw.background_query = Absent
                          THEN None ELSE raw.background_query]

\* truth value of an optional str
truthy(v) == v # None /\ v # ""

\* `if source_config.rendering.X: content.Y = source_config.rendering.X`, for
\* background, background_query and layout
apply_rendering(rendering, content) ==
    [layout_type      |-> IF truthy(rendering.layout)
                          THEN rendering.layout ELSE content.layout_type,
     background_mode  |-> IF truthy(rendering.background)
                          THEN rendering.background ELSE content.background_mode,
     background_query |-> IF truthy(rendering.background_query)
                          THEN rendering.background_query
                          ELSE content.background_query]

NoHints == [layout_type |-> None]

\* the `if content:` branch of _execute_source up to the renderer call, for a
\* definition whose rendering mapping is `section`
ApplyRendering ==
    /\ section \in Sections
    /\ forwarded = NoHints
    /\ forwarded' = apply_rendering(RenderingConfig(section), task_content)
    /\ UNCHANGED <<execVars, schedVars, extVars, section, task_content,
                   envVars, regVars, daemonVars>>

RenderIdle ==
    /\ section = Absent
    /\ task_content = NoHints
    /\ forwarded = NoHints

(***************************************************************************)
(* SignageScheduler                                                        *)
(***************************************************************************)
\* self.intervals, in seconds
intervals ==
    [tesla |-> 900, weather |-> 1800, stock |-> 300, ferry |-> 300,
     whales |-> 3600, sports |-> 7200]

\* self.live_interval = Config.LIVE_UPDATE_INTERVAL
live_interval == 120

\* what NFLClient().is_game_live() does when the probe calls it
ProbeOutcomes == {"live", "notlive", "raise"}

\* variant: the result of the previous sports tick is reused
is_live_sports_event_cached(enabled, probe) ==
    IF lastCall.name = "sports" /\ lastCall.live # "notcalled"
    THEN lastCall.live
    ELSE IF enabled /\ probe = "live" THEN "live" ELSE "notlive"

\* variant: a probe that raised counts as a live game
is_live_sports_event_unless_notlive(enabled, probe) ==
    IF enabled /\ probe # "notlive" THEN "live" ELSE "notlive"

\* _is_live_sports_event: True only when the NFL client reports a live game;
\* a raised exception is logged and the result is False
is_live_sports_event(enabled, probe) ==
    IF enabled /\ probe = "live" THEN "live" ELSE "notlive"

\* self.last_run.get(name)
last_run_get(name) == IF name \in DOMAIN last_run THEN last_run[name] ELSE NoTime

\* variant: `elapsed > interval`
should_run_strict(name, t, live) ==
    IF name \notin DOMAIN last_run THEN TRUE
    ELSE LET interval == IF name = "sports" /\ live = "live"
                         THEN 120 ELSE intervals[name]
         IN  t - last_run[name] > interval

\* should_run(name) evaluated at time t; live is the probe's result, consulted
\* only for "sports" once a run has been recorded
should_run(name, t, live) ==
    IF last_run_get(name) = NoTime THEN TRUE
    ELSE LET last     == last_run[name]
             interval == IF name = "sports" /\ live = "live"
                         THEN live_interval ELSE intervals[name]
             elapsed  == t - last
         IN  elapsed >= interval

\* what the body of the try block does: the generator returns ("ok"; the
\* generate_* functions log their own failures and return), or the client
\* constructor of the `with` statement raises and the handler is reached
GeneratorOutcomes(name) ==
    IF name = "sports" THEN {"ok"} ELSE {"ok", "raise"}

Durations == {0, 30}

\* _check_and_run_<name>
check_and_run(name, probe, outcome, d) ==
    /\ calls < MaxCalls
    /\ calls' = calls + 1
    /\ LET probed == name = "sports" /\ last_run_get(name) # NoTime
           live   == IF probed THEN is_live_sports_event(SEAHAWKS_ENABLED, probe)
                     ELSE NotCalled
           due    == should_run(name, now, live)
       IN  /\ IF probed THEN probe \in ProbeOutcomes ELSE probe = NotCalled
           /\ IF ~due
              THEN /\ outcome = NotCalled /\ d = 0
                   /\ UNCHANGED <<last_run, now>>
              ELSE /\ outcome \in GeneratorOutcomes(name)
                   /\ now' = now + d
                   /\ IF outcome = "raise"
                      THEN UNCHANGED last_run
                      ELSE last_run' = [n \in DOMAIN last_run \cup {name} |->
                                          IF n = name THEN now' ELSE last_run[n]]
           /\ lastCall' = [name |-> name, at |-> now, prev |-> last_run_get(name),
                           probe |-> probe, live |-> live, due |-> due,
                           outcome |-> outcome, end |-> now',
                           prev_probe |-> IF lastCall.name = "sports"
                                          THEN lastCall.probe ELSE NotCalled]
    /\ UNCHANGED <<execVars, SEAHAWKS_ENABLED, auxVars, extVars>>

CheckAndRun(name) ==
    \E probe \in ProbeOutcomes \cup {NotCalled},
       outcome \in {"ok", "raise", NotCalled}, d \in Durations :
        check_and_run(name, probe, outcome, d)

CheckAndRunTesla   == CheckAndRun("tesla")
CheckAndRunWeather == CheckAndRun("weather")
CheckAndRunStock   == CheckAndRun("stock")
CheckAndRunFerry   == CheckAndRun("ferry")
CheckAndRunSports  == CheckAndRun("sports")

\* time passing between two calls (time.sleep(30) in run_daemon, or longer):
\* the clock moves on to one of the instants at which a call is then made
Instants == {120, 300, 7200}

Elapse ==
    \E t \in Instants :
        /\ t > now
        /\ now' = t
        /\ UNCHANGED <<execVars, last_run, SEAHAWKS_ENABLED, lastCall, calls, auxVars, extVars>>

(***************************************************************************)
(* SignageScheduler.run_daemon                                             *)
(***************************************************************************)
\* the calls of one pass of the `while self.running` loop, in order
loop_order == <<"tesla", "weather", "stock", "ferry", "whales", "sports">>
\* the _check_and_run_* methods the class defines
defined_checks == {"tesla", "weather", "stock", "ferry", "sports"}

after(name) ==
    LET i == CHOOSE k \in 1..Len(loop_order) : loop_order[k] = name
    IN  IF i < Len(loop_order) THEN loop_order[i + 1] ELSE "sleep"

\* self.running = True, then the first call of the loop
DaemonStart ==
    /\ dpc = "idle"
    /\ running' = TRUE
    /\ dpc' = loop_order[1]
    /\ UNCHANGED <<execVars, schedVars, extVars, renderVars, envVars, regVars,
                   inflight, aborted>>

\* _check_and_run_<name> up to the generator call: return when not due,
\* otherwise enter the try block
DaemonCheck(name) ==
    /\ dpc = name
    /\ name \in defined_checks \ {"sports"}
    /\ inflight = None
    /\ IF should_run(name, now, NotCalled)
       THEN inflight' = name /\ dpc' = dpc
       ELSE inflight' = inflight /\ dpc' = after(name)
    /\ UNCHANGED <<execVars, schedVars, extVars, renderVars, envVars, regVars,
                   running, aborted>>

\* the generator call returns or raises an Exception: last_run is recorded,
\* or the handler logs; _check_and_run_<name> returns
DaemonGeneratorEnds ==
    /\ inflight # None
    /\ \E outcome \in GeneratorOutcomes(inflight), d \in Durations :
          /\ now' = now + d
          /\ IF outcome = "raise"
             THEN UNCHANGED last_run
             ELSE last_run' = [n \in DOMAIN last_run \cup {inflight} |->
                                 IF n = inflight THEN now' ELSE last_run[n]]
    /\ dpc' = after(inflight)
    /\ inflight' = None
    /\ UNCHANGED <<execVars, SEAHAWKS_ENABLED, lastCall, calls, extVars, renderVars,
                   envVars, regVars, running, aborted>>

\* self._check_and_run_whales(): the attribute does not exist, AttributeError
\* leaves run_daemon through no handler; the calls after it in the loop
\* (sports, time.sleep) are not reached
DaemonWhales ==
    /\ dpc = "whales"
    /\ "whales" \notin defined_checks
    /\ dpc' = "raised"
    /\ UNCHANGED <<execVars, schedVars, extVars, renderVars, envVars, regVars,
                   running, inflight, aborted>>

\* KeyboardInterrupt delivered to the main thread while the loop runs. The
\* handlers inside _check_and_run_* catch Exception only, so it unwinds a
\* generator call in progress and reaches `except KeyboardInterrupt`, which
\* calls stop(); run_daemon then returns
Interrupt ==
    /\ dpc \in {loop_order[i] : i \in 1..Len(loop_order)}
    /\ aborted' = IF inflight # None THEN aborted \cup {inflight} ELSE aborted
    /\ inflight' = None
    /\ running' = FALSE
    /\ dpc' = "returned"
    /\ UNCHANGED <<execVars, schedVars, extVars, renderVars, envVars, regVars>>

(***************************************************************************)
(* generate_signage.main                                                   *)
(***************************************************************************)
\* the flags of the command line that main() or argparse may read
Args == [daemon : BOOLEAN, source : {None, "weather"}, migrate : BOOLEAN]
NoArgs == [daemon |-> FALSE, source |-> None, migrate |-> FALSE]

\* `if plugin_config:` taken: the executor is built on the loaded document
MainPlugin ==
    /\ mode = "none"
    /\ loadState = "loaded"
    /\ mode' = "plugin"
    /\ UNCHANGED <<execVars, schedVars, auxVars, file, argv, moreVars>>

\* the argument of executor.run in the plugin branch: the word after
\* --source, if any
run_filter(args) == args.source

\* executor.run(...) of the plugin branch, after which main returns
MainRun ==
    /\ mode = "plugin"
    /\ runs = 0
    /\ RunStart(run_filter(argv))

\* load() returned None: argparse, then migration, the scheduler or one
\* pass over the generators
MainLegacy ==
    /\ mode = "none"
    /\ loadState = "absent"
    /\ mode' = IF argv.migrate THEN "migrate"
               ELSE IF argv.daemon THEN "daemon" ELSE "batch"
    /\ UNCHANGED <<execVars, schedVars, auxVars, file, argv, moreVars>>

\* an exception of load() leaves main through no handler
MainRaise ==
    /\ mode = "none"
    /\ loadState = "failed"
    /\ mode' = "raised"
    /\ UNCHANGED <<execVars, schedVars, auxVars, file, argv, moreVars>>

\* scheduler.run_daemon() of the legacy branch
MainDaemon ==
    /\ mode = "daemon"
    /\ DaemonStart

MainIdle ==
    /\ file = "present"
    /\ argv = NoArgs
    /\ mode = "none"

(***************************************************************************)
(* APIClient._make_request                                                 *)
(***************************************************************************)
\* bound on the max_retries a client is constructed with (the default is 3)
MaxRetries == 4

\* session.request(...) followed by response.raise_for_status(): the response
\* is returned, or HTTPError, or another RequestException is raised
RequestOutcomes == {"ok", "HTTPError", "ConnectionError", "Timeout"}

\* the Response object that attempt k got
Response(k) == [status |-> "ok", attempt |-> k]

\* variant: the wait doubles from two seconds
wait_time_from_two(k) == 2 ^ k

\* wait_time = 2 ** (attempt - 1)
wait_time(k) == 2 ^ (k - 1)

\* the call, up to the first pass of `for attempt in range(1, max_retries + 1)`;
\* an empty range falls through to the final `return None`
MakeRequest ==
    /\ rpc = "idle"
    /\ IF max_retries >= 1
          THEN rpc' = "attempt" /\ attempt' = 1 /\ response' = response
          ELSE rpc' = "returned" /\ attempt' = attempt /\ response' = NoneValue
    /\ UNCHANGED <<max_retries, sleeps, outcomes>>
    /\ UNCHANGED <<execVars, schedVars, auxVars, mainVars, teslaVars, outVars, migVars>>

\* one pass of the loop body: the try block and the handler that catches
\* what it raised
RequestAttempt ==
    /\ rpc = "attempt"
    /\ \E o \in RequestOutcomes :
          /\ outcomes' = Append(outcomes, o)
          /\ IF o = "ok"
                THEN /\ response' = Response(attempt)
                     /\ rpc' = "returned"
                     /\ UNCHANGED <<attempt, sleeps>>
                ELSE IF attempt < max_retries
                THEN /\ sleeps' = Append(sleeps, wait_time(attempt))
                     /\ attempt' = attempt + 1
                     /\ UNCHANGED <<rpc, response>>
                ELSE /\ response' = NoneValue
                     /\ rpc' = "returned"
                     /\ UNCHANGED <<attempt, sleeps>>
    /\ UNCHANGED max_retries
    /\ UNCHANGED <<execVars, schedVars, auxVars, mainVars, teslaVars, outVars, migVars>>

ReqIdle ==
    /\ rpc = "idle"
    /\ max_retries = 3
    /\ attempt = 0
    /\ sleeps = <<>>
    /\ outcomes = <<>>
    /\ response = NoneValue

(***************************************************************************)
(* TeslaFleetClient: the vehicle data cache                                *)
(***************************************************************************)
\* bound on the number of calls made on one client
MaxFetches == 3

VehicleIds == {"v1", "v2"}

\* vehicle data as the tests build it
Data(n) == [charge_state |-> [battery_level |-> n]]

\* the value a 200 body carries under "response": JSON null or vehicle data
Payloads == {NoneValue, Data(50), Data(75)}

\* what _api_request returns: None when the request failed or the status was
\* not 200, else response.json(), a body without or with a "response" key
ApiReplies ==
    {NoneValue, [error |-> "vehicle unavailable"]} \cup {[response |-> d] : d \in Payloads}

\* keys of the dictionary _cache_vehicle_data starts from: {} when the file
\* does not exist, else json.load of it
cache_keys(cf) == IF cf = NoneValue THEN {} ELSE DOMAIN cf

\* _cache_vehicle_data: cache[vehicle_id] = {"data", "cached_at"}, written back
cache_vehicle_data(cf, vehicle_id, data, t) ==
    [i \in cache_keys(cf) \cup {vehicle_id} |->
        IF i = vehicle_id THEN [data |-> data, cached_at |-> t] ELSE cf[i]]

\* get_cached_vehicle_data: None without a file or without the key
get_cached_vehicle_data(cf, vehicle_id) ==
    IF cf = NoneValue THEN NoneValue
    ELSE IF vehicle_id \in DOMAIN cf THEN cf[vehicle_id] ELSE NoneValue

\* get_vehicle_data on the reply of _api_request: what it returns and the
\* cache file it leaves
get_vehicle_data(cf, vehicle_id, data, t) ==
    IF data # NoneValue /\ "response" \in DOMAIN data
        THEN [returned |-> data.response,
              cache |-> cache_vehicle_data(cf, vehicle_id, data.response, t)]
        ELSE [returned |-> NoneValue, cache |-> cf]

GetVehicleData ==
    /\ Len(fetches) < MaxFetches
    /\ \E vehicle_id \in VehicleIds, data \in ApiReplies :
          LET t == tesla_now + 1
              r == get_vehicle_data(cache_file, vehicle_id, data, t)
          IN  /\ cache_file' = r.cache
              /\ tesla_now' = t
              /\ fetches' = Append(fetches, [op |-> "get_vehicle_data", id |-> vehicle_id,
                                               returned |-> r.returned, at |-> t])
    /\ UNCHANGED <<execVars, schedVars, auxVars, mainVars, reqVars, outVars, migVars>>

\* _cache_vehicle_data called directly with vehicle data, as the tests do
CacheVehicleData ==
    /\ Len(fetches) < MaxFetches
    /\ \E vehicle_id \in VehicleIds, data \in Payloads \ {NoneValue} :
          LET t == tesla_now + 1
          IN  /\ cache_file' = cache_vehicle_data(cache_file, vehicle_id, data, t)
              /\ tesla_now' = t
              /\ fetches' = Append(fetches, [op |-> "_cache_vehicle_data", id |-> vehicle_id,
                                               returned |-> data, at |-> t])
    /\ UNCHANGED <<execVars, schedVars, auxVars, mainVars, reqVars, outVars, migVars>>

TeslaIdle ==
    /\ cache_file = NoneValue
    /\ tesla_now = 0
    /\ fetches = <<>>

(***************************************************************************)
(* OutputManager: archive and retention                                    *)
(***************************************************************************)
MaxSaves  == 4     \* save_image calls per behaviour
MaxOutNow == 2     \* datetime.now() stops advancing here (seconds)

\* Config.ARCHIVE_KEEP_COUNT (an integer >= 1, 5 unless configured)
ARCHIVE_KEEP_COUNT == 1

\* the stems of ferry.png and ferry_map.png, as the words between underscores
Ferry    == <<"ferry">>
FerryMap == <<"ferry", "map">>
Stems    == {Ferry, FerryMap}

NoFile == [version |-> 0, mtime |-> 0]

\* datetime.now().strftime(...): one word per second
strftime(t) == ToString(t)

\* f"{base_name}_{timestamp}.png"
archive_name(base_name, timestamp) == Append(base_name, timestamp)

\* fnmatch of a file name against f"{base_name}_*.png": the name starts
\* with base_name and an underscore
glob_matches(base_name, name) ==
    /\ Len(name) > Len(base_name)
    /\ SubSeq(name, 1, Len(base_name)) = base_name

\* shutil.move(old_file, archive_path): a rename, which replaces a file of
\* that name and keeps the modification time
move_to_archive(dir, base_name, old, t) ==
    LET name == archive_name(base_name, strftime(t))
    IN  {a \in dir : a.name # name} \cup
        {[name |-> name, stem |-> base_name, version |-> old.version, mtime |-> old.mtime]}

\* the sets archives[:archive_keep_count] can be, archives being the glob
\* sorted by st_mtime, newest first; files of one mtime come in any order
kept_archives(dir, base_name) ==
    LET archives == {a \in dir : glob_matches(base_name, a.name)}
        n == IF Cardinality(archives) < ARCHIVE_KEEP_COUNT
                THEN Cardinality(archives) ELSE ARCHIVE_KEEP_COUNT
    IN  {K \in SUBSET archives :
            /\ Cardinality(K) = n
            /\ \A a \in K, b \in archives \ K : a.mtime >= b.mtime}

\* save_image(image, filename) with one profile: _archive_old_file (the move
\* and _cleanup_archives), then resized.save(output_path). st_mtime is finer
\* than a second: the writes are stamped in the order they are made
SaveImage(base_name) ==
    /\ saves < MaxSaves
    /\ saves' = saves + 1
    /\ output_dir' = [output_dir EXCEPT ![base_name] = [version |-> saves + 1, mtime |-> saves + 1]]
    /\ IF output_dir[base_name] = NoFile
          THEN archive_dir' = archive_dir
          ELSE LET moved == move_to_archive(archive_dir, base_name, output_dir[base_name], out_now)
               IN  \E K \in kept_archives(moved, base_name) :
                      archive_dir' = {a \in moved : ~glob_matches(base_name, a.name)} \cup K
    /\ UNCHANGED out_now
    /\ UNCHANGED <<execVars, schedVars, auxVars, mainVars, reqVars, teslaVars, migVars>>

SaveFerry    == SaveImage(Ferry)
SaveFerryMap == SaveImage(FerryMap)

\* a second goes by
OutTick ==
    /\ out_now < MaxOutNow
    /\ out_now' = out_now + 1
    /\ UNCHANGED <<output_dir, archive_dir, saves>>
    /\ UNCHANGED <<execVars, schedVars, auxVars, mainVars, reqVars, teslaVars, migVars>>

OutIdle ==
    /\ output_dir = [b \in Stems |-> NoFile]
    /\ archive_dir = {}
    /\ out_now = 0
    /\ saves = 0

(***************************************************************************)
(* ConfigMigrator.migrate and the schema it has to pass                    *)
(***************************************************************************)
\* the variables migrate() tests for truth
MigFlags == {"WEATHER_API_KEY", "TESLA_CLIENT_ID", "FERRY_ROUTE", "AMBIENT_API_KEY",
             "AMBIENT_SENSOR_NAMES", "SPEEDTEST_URL", "STOCK_API_KEY"}
\* the variables whose value migrate() copies into the document
MigValues == {"WEATHER_CITY", "WEATHER_BG_MODE"}

\* os.getenv(name): None when unset
MigEnvirons ==
    {e \in [MigFlags \cup MigValues -> {None, "", "x", "local", "unsplash", "solid"}] :
        /\ \A n \in MigFlags : e[n] \in {None, "x"}
        /\ e["WEATHER_CITY"] \in {None, "x"}
        /\ e["WEATHER_BG_MODE"] \in {None, "", "local", "unsplash", "solid"}}

\* os.getenv(name, default)
getenv_default(e, name, default) == IF e[name] = None THEN default ELSE e[name]

\* the ids migrate() writes, character by character
id_weather_default == <<"w", "e", "a", "t", "h", "e", "r", "_", "d", "e", "f", "a", "u", "l", "t">>
id_tesla_default == <<"t", "e", "s", "l", "a", "_", "d", "e", "f", "a", "u", "l", "t">>
id_ferry_default == <<"f", "e", "r", "r", "y", "_", "d", "e", "f", "a", "u", "l", "t">>
id_ambient_weather_default == <<"a", "m", "b", "i", "e", "n", "t", "_", "w", "e", "a", "t", "h", "e", "r", "_", "d", "e", "f", "a", "u", "l", "t">>
id_ambient_sensors_default == <<"a", "m", "b", "i", "e", "n", "t", "_", "s", "e", "n", "s", "o", "r", "s", "_", "d", "e", "f", "a", "u", "l", "t">>
id_speedtest_default == <<"s", "p", "e", "e", "d", "t", "e", "s", "t", "_", "d", "e", "f", "a", "u", "l", "t">>
id_stock_default == <<"s", "t", "o", "c", "k", "_", "d", "e", "f", "a", "u", "l", "t">>
id_system_health_default == <<"s", "y", "s", "t", "e", "m", "_", "h", "e", "a", "l", "t", "h", "_", "d", "e", "f", "a", "u", "l", "t">>
id_ferry_map_default == <<"f", "e", "r", "r", "y", "_", "m", "a", "p", "_", "d", "e", "f", "a", "u", "l", "t">>

\* fields of a cron expression
Every        == [kind |-> "*"]
EveryNth(n)  == [kind |-> "*/n", n |-> n]
From(lo, hi) == [kind |-> "a-b", lo |-> lo, hi |-> hi]
At(n)        == [kind |-> "n", n |-> n]

Entry(id, type, enabled, schedule, keys_of_config, rendering) ==
    [id |-> id, type |-> type, enabled |-> enabled, schedule |-> schedule,
     config |-> keys_of_config, rendering |-> rendering]

Hints(layout, background, background_query) ==
    [layout |-> layout, background |-> background, background_query |-> background_query]

\* the entries of migrate(), each under the condition migrate() puts on it
\* (system_health on `if sources:`), in the order they are appended
migrate_entries(e) ==
    <<[on |-> e["WEATHER_API_KEY"] \notin {None, ""},
       entry |-> Entry(id_weather_default, "weather", TRUE,
                       <<EveryNth(15), Every, Every, Every, Every>>,
                       {"city", "api_key"},
                       Hints("modern_weather", getenv_default(e, "WEATHER_BG_MODE", "local"),
                             "weather/cloudy"))],
      [on |-> e["TESLA_CLIENT_ID"] \notin {None, ""},
       entry |-> Entry(id_tesla_default, "tesla", TRUE,
                       <<EveryNth(30), Every, Every, Every, Every>>,
                       {"vehicle_index"},
                       Hints("tesla_card", "local", "tesla/model_y"))],
      [on |-> e["FERRY_ROUTE"] \notin {None, ""},
       entry |-> Entry(id_ferry_default, "ferry", TRUE,
                       <<EveryNth(10), From(6, 22), Every, Every, Every>>,
                       {},
                       Hints("ferry_map", "local", "ferry/puget_sound"))],
      [on |-> e["AMBIENT_API_KEY"] \notin {None, ""},
       entry |-> Entry(id_ambient_weather_default, "ambient_weather", TRUE,
                       <<EveryNth(15), Every, Every, Every, Every>>,
                       {},
                       Hints("default", "local", "weather/sunny"))],
      [on |-> e["AMBIENT_API_KEY"] \notin {None, ""} /\ e["AMBIENT_SENSOR_NAMES"] \notin {None, ""},
       entry |-> Entry(id_ambient_sensors_default, "ambient_sensors", TRUE,
                       <<EveryNth(15), Every, Every, Every, Every>>,
                       {},
                       Hints("default", "gradient", None))],
      [on |-> e["SPEEDTEST_URL"] \notin {None, ""},
       entry |-> Entry(id_speedtest_default, "speedtest", TRUE,
                       <<At(0), EveryNth(4), Every, Every, Every>>,
                       {},
                       Hints("default", "local", "speedtest/network"))],
      [on |-> e["STOCK_API_KEY"] \notin {None, ""},
       entry |-> Entry(id_stock_default, "stock", TRUE,
                       <<At(0), From(9, 16), Every, Every, From(1, 5)>>,
                       {},
                       Hints("default", "local", "stock/charts"))],
      [on |-> \E n \in MigFlags \ {"AMBIENT_SENSOR_NAMES"} : e[n] \notin {None, ""},
       entry |-> Entry(id_system_health_default, "system_health", TRUE,
                       <<EveryNth(5), Every, Every, Every, Every>>,
                       {},
                       Hints("default", "gradient", None))],
      [on |-> e["FERRY_ROUTE"] \notin {None, ""},
       entry |-> Entry(id_ferry_map_default, "ferry_map", FALSE,
                       <<EveryNth(10), From(6, 22), Every, Every, Every>>,
                       {},
                       Hints("full_map", "ferry_map", None))]>>

RECURSIVE appended(_, _)
\* the list the sources.append calls leave
appended(cands, k) ==
    IF k = 0 THEN <<>>
    ELSE IF cands[k].on THEN Append(appended(cands, k - 1), cands[k].entry)
    ELSE appended(cands, k - 1)

\* migrate()["sources"]
migrate(e) == appended(migrate_entries(e), Len(migrate_entries(e)))

\* the characters of ^[a-zA-Z0-9_-]+$
IdChars ==
    {"a", "b", "c", "d", "e", "f", "g", "h", "i", "j", "k", "l", "m", "n", "o", "p", "q", "r", "s", "t", "u", "v", "w", "x", "y", "z"} \cup
    {"A", "B", "C", "D", "E", "F", "G", "H", "I", "J", "K", "L", "M", "N", "O", "P", "Q", "R", "S", "T", "U", "V", "W", "X", "Y", "Z"} \cup
    {"0", "1", "2", "3", "4", "5", "6", "7", "8", "9"} \cup {"_", "-"}

\* validate_id: re.match(r"^[a-zA-Z0-9_-]+$", v)
validate_id(v) == Len(v) >= 1 /\ \A i \in 1..Len(v) : v[i] \in IdChars

\* one field of an expression croniter takes: `*`, `*/n` with n >= 1, a
\* range or a number inside the range of the position
cron_field(f, r) ==
    CASE f.kind = "*"   -> TRUE
      [] f.kind = "*/n" -> f.n >= 1
      [] f.kind = "a-b" -> r.lo <= f.lo /\ f.lo <= f.hi /\ f.hi <= r.hi
      [] f.kind = "n"   -> r.lo <= f.n /\ f.n <= r.hi

\* validate_cron on a migrated schedule
validate_cron_fields(v) == Len(v) = 5 /\ \A i \in 1..5 : cron_field(v[i], cron_ranges[i])

\* RenderingConfig.background
background_literal == {"local", "unsplash", "pexels", "gradient"}

\* SourcesConfig(sources = ...) returns instead of raising ValidationError
schema_accepts(sources) ==
    /\ \A i \in 1..Len(sources) :
          /\ validate_id(sources[i].id)
          /\ validate_cron_fields(sources[i].schedule)
          /\ sources[i].rendering.background \in background_literal
    /\ duplicates(sources) = {}

NoDocument == <<[id |-> <<>>]>>

\* migrate() called in the environment
Migrate ==
    /\ mig_result = "none"
    /\ mig_document = NoDocument
    /\ mig_document' = migrate(mig_environ)
    /\ mig_document' # NoDocument
    /\ UNCHANGED <<mig_environ, mig_result>>
    /\ UNCHANGED <<execVars, schedVars, auxVars, mainVars, reqVars, teslaVars, outVars>>

\* the written document handed to SourcesConfig by the loader
LoadMigrated ==
    /\ mig_result = "none"
    /\ mig_document # NoDocument
    /\ mig_result' = IF schema_accepts(mig_document) THEN "accepted" ELSE "ValidationError"
    /\ UNCHANGED <<mig_environ, mig_document>>
    /\ UNCHANGED <<execVars, schedVars, auxVars, mainVars, reqVars, teslaVars, outVars>>

MigIdle ==
    /\ mig_environ = [n \in MigFlags \cup MigValues |-> None]
    /\ mig_document = NoDocument
    /\ mig_result = "none"

(***************************************************************************)
(* The environment                                                         *)
(***************************************************************************)
NameA    == <<"A">>
EnvNames == {NameA}
Bar      == <<"b", "a", "r">>
\* a variable is unset, set to "bar" or set to the empty string
EnvSettings == {NoneValue, Str(Bar), Str(<<>>)}
Environs == [EnvNames -> EnvSettings]

\* os.environ changed from outside the loader and the executor
SetEnv ==
    \E v \in EnvSettings :
        /\ v # environ[NameA]
        /\ environ' = [environ EXCEPT ![NameA] = v]
        /\ UNCHANGED <<execVars, schedVars, extVars, renderVars, loadException, envError,
                       regVars, daemonVars>>

(***************************************************************************)
(* Initial states and specifications                                       *)
(***************************************************************************)
EnvIdle ==
    /\ environ = [n \in EnvNames |-> NoneValue]
    /\ loadException = None
    /\ envError = NoneValue

RegIdle ==
    /\ registry = imported
    /\ regResult = NoResult
    /\ listed = <<>>

DaemonIdle ==
    /\ dpc = "idle"
    /\ running = FALSE
    /\ inflight = None
    /\ aborted = {}

MoreIdle == ReqIdle /\ TeslaIdle /\ OutIdle /\ MigIdle

ExtIdle == MainIdle /\ MoreIdle

NoCall == [name |-> None]

SchedIdle ==
    /\ last_run = <<>>
    /\ now = 0
    /\ SEAHAWKS_ENABLED = FALSE
    /\ lastCall = NoCall
    /\ calls = 0

ExecIdle ==
    /\ document = <<>>
    /\ config = <<>>
    /\ loadState = "unloaded"
    /\ loadError = {}
    /\ pc = "idle"
    /\ source_filter = None
    /\ sources_to_run = <<>>
    /\ idx = 1
    /\ attempts = <<>>
    /\ logRecords = <<>>
    /\ rendered = <<>>
    /\ clock = 0
    /\ runs = 0

InitSched ==
    /\ ExtIdle
    /\ ExecIdle
    /\ RenderIdle /\ EnvIdle /\ RegIdle /\ DaemonIdle
    /\ last_run = <<>>
    /\ now = 0
    /\ SEAHAWKS_ENABLED \in BOOLEAN
    /\ lastCall = NoCall
    /\ calls = 0

NextSched ==
    \/ CheckAndRunTesla
    \/ CheckAndRunWeather
    \/ CheckAndRunStock
    \/ CheckAndRunFerry
    \/ CheckAndRunSports
    \/ Elapse

SpecSched == InitSched /\ [][NextSched]_vars

InitExec ==
    /\ ExtIdle
    /\ document \in SeqsUpTo(SourceConfig, MaxSources)
    /\ config = <<>>
    /\ loadState = "unloaded"
    /\ loadError = {}
    /\ pc = "idle"
    /\ source_filter = None
    /\ sources_to_run = <<>>
    /\ idx = 1
    /\ attempts = <<>>
    /\ logRecords = <<>>
    /\ rendered = <<>>
    /\ clock = 0
    /\ runs = 0
    /\ SchedIdle
    /\ RenderIdle /\ EnvIdle /\ RegIdle /\ DaemonIdle

NextExec ==
    \/ Load
    \/ \E f \in Filters : RunStart(f)
    \/ ExecuteSource
    \/ RunReturn

SpecExec == InitExec /\ [][NextExec]_vars

\* rendering hints: every mapping and every task content
InitRender ==
    /\ ExtIdle
    /\ ExecIdle /\ SchedIdle /\ EnvIdle /\ RegIdle /\ DaemonIdle
    /\ section \in Sections
    /\ task_content \in TaskContents
    /\ forwarded = NoHints

NextRender == ApplyRendering

SpecRender == InitRender /\ [][NextRender]_vars

\* the schedules that are drawn: two well-formed ones, then four fields, a
\* minute of 99, a day of month of 0, a word, and the empty string
Schedules ==
    {EveryMinute, <<"0", "1", "1", "1", "0">>,
     <<"*", "*", "*", "*">>, <<"99", "*", "*", "*", "*">>,
     <<"*", "*", "0", "*", "*">>, <<"x", "*", "*", "*", "*">>, <<>>}

MaxValueLen == 4     \* longest config value, in characters
Chars  == {"$", "{", "}", "A"}
Values == {Str(s) : s \in SeqsUpTo(Chars, MaxValueLen)} \cup {IntValue(42)}

\* the state before load() of a document
Unloaded(doc) ==
    /\ document = doc
    /\ config = <<>>
    /\ loadState = "unloaded"
    /\ loadError = {}
    /\ pc = "idle"
    /\ source_filter = None
    /\ sources_to_run = <<>>
    /\ idx = 1
    /\ attempts = <<>>
    /\ logRecords = <<>>
    /\ rendered = <<>>
    /\ clock = 0
    /\ runs = 0
    /\ loadException = None
    /\ envError = NoneValue

\* loading one definition: any schedule, any value, any environment
InitLoad ==
    /\ ExtIdle
    /\ \E sched \in Schedules, v \in Values :
          Unloaded(<<[id |-> "a", type |-> "weather", enabled |-> TRUE,
                      schedule |-> sched, config |-> [api_key |-> v]]>>)
    /\ environ \in Environs
    /\ SchedIdle /\ RenderIdle /\ RegIdle /\ DaemonIdle

NextLoad == Load

SpecLoad == InitLoad /\ [][NextLoad]_vars

\* load, then runs, while the environment changes: one or two definitions
\* whose value is a reference, a plain string or a number
Reference == <<"$", "{", "A", "}">>
EnvValues == {Str(Reference), Str(NameA), IntValue(42)}
EnvSchedules == {EveryMinute, <<"*", "*", "*", "*">>, <<"99", "*", "*", "*", "*">>}
EnvDefs(id) ==
    [id : {id}, type : {"weather"}, enabled : {TRUE},
     schedule : EnvSchedules, config : {[api_key |-> v] : v \in EnvValues}]

InitEnv ==
    /\ ExtIdle
    /\ \E doc \in {<<d>> : d \in EnvDefs("a")}
                  \cup {<<d1, d2>> : d1 \in EnvDefs("a"), d2 \in EnvDefs("b")} :
          Unloaded(doc)
    /\ environ \in Environs
    /\ SchedIdle /\ RenderIdle /\ RegIdle /\ DaemonIdle

NextEnv ==
    \/ Load
    \/ \E f \in Filters : RunStart(f)
    \/ ExecuteSource
    \/ RunReturn
    \/ SetEnv

SpecEnv == InitEnv /\ [][NextEnv]_vars

\* the registry before any plugin module is imported
InitReg ==
    /\ ExtIdle
    /\ ExecIdle /\ SchedIdle /\ RenderIdle /\ EnvIdle /\ DaemonIdle
    /\ registry = <<>>
    /\ regResult = NoResult
    /\ listed = <<>>

NextReg ==
    \/ Register
    \/ Create
    \/ ListTypes
    \/ MutateListed

SpecReg == InitReg /\ [][NextReg]_vars

\* a scheduler in the legacy CLI, started with --daemon
InitDaemon ==
    /\ ExtIdle
    /\ ExecIdle /\ RenderIdle /\ EnvIdle /\ RegIdle /\ DaemonIdle
    /\ last_run = <<>>
    /\ now = 0
    /\ SEAHAWKS_ENABLED \in BOOLEAN
    /\ lastCall = NoCall
    /\ calls = 0

NextDaemon ==
    \/ DaemonStart
    \/ \E name \in defined_checks : DaemonCheck(name)
    \/ DaemonGeneratorEnds
    \/ DaemonWhales
    \/ Interrupt

SpecDaemon == InitDaemon /\ [][NextDaemon]_vars

\* the entry point: sources.yaml missing, not YAML, or holding a document
\* that is valid or has a clashing id; any flags
MainDefs(id) ==
    [id |-> id, type |-> "weather", enabled |-> TRUE,
     schedule |-> EveryMinute, config |-> <<>>]

InitMain ==
    /\ \E doc \in {<<MainDefs("weather"), MainDefs("a")>>,
                    <<MainDefs("weather"), MainDefs("weather")>>} :
          Unloaded(doc)
    /\ file \in {"absent", "malformed", "present"}
    /\ argv \in Args
    /\ mode = "none"
    /\ MoreIdle
    /\ SchedIdle /\ RenderIdle /\ RegIdle /\ DaemonIdle
    /\ environ = [n \in EnvNames |-> NoneValue]

NextMain ==
    \/ Load
    \/ MainPlugin
    \/ MainRun
    \/ ExecuteSource
    \/ RunReturn
    \/ MainLegacy
    \/ MainRaise
    \/ MainDaemon

SpecMain == InitMain /\ [][NextMain]_vars

\* one APIClient of any max_retries making one request
InitReq ==
    /\ ExecIdle /\ SchedIdle /\ RenderIdle /\ EnvIdle /\ RegIdle /\ DaemonIdle
    /\ MainIdle /\ TeslaIdle /\ OutIdle /\ MigIdle
    /\ rpc = "idle"
    /\ max_retries \in 0..MaxRetries
    /\ attempt = 0
    /\ sleeps = <<>>
    /\ outcomes = <<>>
    /\ response = NoneValue

NextReq ==
    \/ MakeRequest
    \/ RequestAttempt

SpecReq == InitReq /\ [][NextReq]_vars

\* one Tesla client on a machine without a cache file
InitTesla ==
    /\ ExecIdle /\ SchedIdle /\ RenderIdle /\ EnvIdle /\ RegIdle /\ DaemonIdle
    /\ ExtIdle

NextTesla ==
    \/ GetVehicleData
    \/ CacheVehicleData

SpecTesla == InitTesla /\ [][NextTesla]_vars

\* an output manager with one profile and an empty output directory
InitOut ==
    /\ ExecIdle /\ SchedIdle /\ RenderIdle /\ EnvIdle /\ RegIdle /\ DaemonIdle
    /\ ExtIdle

NextOut ==
    \/ SaveFerry
    \/ SaveFerryMap
    \/ OutTick

SpecOut == InitOut /\ [][NextOut]_vars

\* migrate() in any environment, then the loader on what it produced
InitMigrate ==
    /\ ExecIdle /\ SchedIdle /\ RenderIdle /\ EnvIdle /\ RegIdle /\ DaemonIdle
    /\ MainIdle /\ ReqIdle /\ TeslaIdle /\ OutIdle
    /\ mig_environ \in MigEnvirons
    /\ mig_document = NoDocument
    /\ mig_result = "none"

NextMigrate ==
    \/ Migrate
    \/ LoadMigrated

SpecMigrate == InitMigrate /\ [][NextMigrate]_vars

(***************************************************************************)
(* Properties of the batch executor and the source contract (SpecExec)     *)
(***************************************************************************)
\* positions of the collection that run(source_filter) has to execute
Matching ==
    {j \in 1..Len(config) :
        config[j].enabled /\ (source_filter = None \/ config[j].id = source_filter)}

\* the definition of the collection an attempt was made for
DefOf(id) == config[CHOOSE j \in 1..Len(config) : config[j].id = id]
PosOf(id) == CHOOSE j \in 1..Len(config) : config[j].id = id

Raised(a) == a.validate = "raise" \/ a.fetch.kind = "raise"

\* every definition run() has to execute after attempt i was attempted too
LaterAttempted(i) ==
    \A j \in Matching :
        j > PosOf(attempts[i].id) =>
            \E k \in (i + 1)..Len(attempts) : attempts[k].id = config[j].id

\* C1: when run returns, one attempt was made per enabled definition matching
\* the filter whatever the earlier attempts did, and the renderer was called
\* for exactly the attempts whose metrics report success.
C1_FailureIsolation ==
    pc = "returned" =>
        LET ok == {i \in 1..Len(attempts) :
                      attempts[i].created /\ attempts[i].metrics.success}
        IN  /\ Len(attempts) = Cardinality(Matching)
            /\ Len(rendered) = Cardinality(ok)
            /\ {rendered[j] : j \in 1..Len(rendered)} = {attempts[i].id : i \in ok}
            /\ \A i \in ok : attempts[i].content # NoContent

\* three enabled tasks, the second raises in fetch_data: three metrics
\* records, two successes, two render calls
C1_Witness ==
    /\ pc = "returned"
    /\ Len(attempts) = 3
    /\ \A i \in 1..3 : attempts[i].created
    /\ attempts[1].metrics.success
    /\ attempts[2].fetch.kind = "raise" /\ ~attempts[2].metrics.success
    /\ attempts[3].metrics.success
    /\ Len(rendered) = 2

\* C2: an execute() whose validate_config or fetch_data raised returns no
\* content and metrics with success = false and error = the exception's
\* message (non-null), and the definitions after it are still attempted.
C2_ExceptionContained ==
    \A i \in 1..Len(attempts) :
        LET a == attempts[i]
        IN  (a.created /\ Raised(a)) =>
                /\ a.content = NoContent
                /\ a.metrics.success = FALSE
                /\ a.metrics.error # None
                /\ a.metrics.error = (IF a.validate = "raise"
                                      THEN "invalid config" ELSE a.fetch.msg)
                /\ (pc = "returned" => LaterAttempted(i))

C2_Witness ==
    /\ pc = "returned"
    /\ Len(attempts) >= 2
    /\ attempts[1].created /\ attempts[1].validate = "raise"
    /\ attempts[2].created /\ attempts[2].fetch.kind = "raise"
       /\ attempts[2].fetch.msg = ""

\* C3: fetch_data returning None without raising gives no content, success =
\* false, data_points = 0 and error = null; error is non-null only for an
\* execution that raised.
C3_NoDataIsNotAnError ==
    \A i \in 1..Len(attempts) :
        LET a == attempts[i]
        IN  a.created =>
                /\ (a.validate = "ok" /\ a.fetch.kind = "None") =>
                        /\ a.content = NoContent
                        /\ a.metrics.success = FALSE
                        /\ a.metrics.data_points = 0
                        /\ a.metrics.error = None
                /\ a.metrics.error # None => Raised(a)

C3_Witness ==
    \E i \in 1..Len(attempts) :
        /\ attempts[i].created
        /\ attempts[i].validate = "ok"
        /\ attempts[i].fetch.kind = "None"

\* C4: on every path execute() returns metrics with completed_at and
\* duration_seconds set and completed_at >= started_at.
C4_AlwaysStamped ==
    \A i \in 1..Len(attempts) :
        LET m == attempts[i].metrics
        IN  attempts[i].created =>
                /\ m.completed_at # NoTime
                /\ m.duration_seconds # NoTime
                /\ m.completed_at >= m.started_at
                /\ m.duration_seconds = m.completed_at - m.started_at

\* one run with a success, a None result and a raise, one of them taking time
C4_Witness ==
    /\ \E i \in 1..Len(attempts) :
          attempts[i].created /\ attempts[i].metrics.success
    /\ \E i \in 1..Len(attempts) :
          attempts[i].created /\ attempts[i].fetch.kind = "None"
    /\ \E i \in 1..Len(attempts) :
          /\ attempts[i].created /\ Raised(attempts[i])
          /\ attempts[i].metrics.completed_at > attempts[i].metrics.started_at

\* ids occurring at two or more positions of the document
Clashing ==
    {document[i].id : i \in {k \in 1..Len(document) :
        \E j \in 1..Len(document) : j # k /\ document[j].id = document[k].id}}

\* C5: loading fails exactly when some id occurs twice in the document, the
\* error then lists every clashing id, and a loaded collection has pairwise
\* distinct ids.
C5_UniqueIds ==
    loadState # "unloaded" =>
        /\ (loadState = "failed") = (Clashing # {})
        /\ loadState = "failed" => loadError = Clashing
        /\ loadState = "loaded" =>
              /\ config = document
              /\ \A i, j \in 1..Len(config) : config[i].id = config[j].id => i = j

\* a document in which one id clashes and another does not
C5_Witness ==
    /\ loadState = "failed"
    /\ Len(document) = 3
    /\ document[1].id = document[3].id
    /\ loadError = {document[1].id}
    /\ document[2].id \notin loadError

\* C9: the definitions run() executes are the enabled definitions matching
\* the filter, each once, in collection order; nothing else is constructed.
C9_RunOrder ==
    /\ \A i \in 1..Len(attempts) :
          \E j \in Matching : config[j].id = attempts[i].id
    /\ \A i, k \in 1..Len(attempts) :
          i < k => PosOf(attempts[i].id) < PosOf(attempts[k].id)
    /\ pc = "returned" =>
          \A j \in Matching : \E i \in 1..Len(attempts) : attempts[i].id = config[j].id
    /\ \A j \in 1..Len(rendered) :
          \E i \in 1..Len(attempts) : attempts[i].id = rendered[j]

\* a disabled definition between two enabled ones is skipped
C9_Witness ==
    /\ pc = "returned"
    /\ source_filter = None
    /\ Len(config) = 3
    /\ config[1].enabled /\ ~config[2].enabled /\ config[3].enabled
    /\ Len(attempts) = 2
    /\ attempts[1].id = config[1].id /\ attempts[2].id = config[3].id

\* C10: for a definition whose type is not registered no instance is made,
\* an error record carrying its id is logged, and the definitions after it
\* are still attempted.
C10_UnknownTypeIsolated ==
    \A i \in 1..Len(attempts) :
        LET a == attempts[i]
        IN  DefOf(a.id).type \notin registered_types =>
                /\ ~a.created
                /\ \E r \in 1..Len(logRecords) :
                      logRecords[r].id = a.id /\ logRecords[r].level = "error"
                /\ (pc = "returned" => LaterAttempted(i))

C10_Witness ==
    /\ pc = "returned"
    /\ Len(attempts) >= 2
    /\ DefOf(attempts[1].id).type = "bogus"
    /\ ~attempts[1].created
    /\ attempts[2].created /\ attempts[2].metrics.success
    /\ rendered = <<attempts[2].id>>

(***************************************************************************)
(* Properties of the daemon scheduler (SpecSched)                          *)
(***************************************************************************)
\* C6: after every attempted run, succeeded or raised, the task's last-run
\* timestamp is the time the attempt ended.
C6_LastRunUpdatedAfterEveryAttempt ==
    (lastCall.name # None /\ lastCall.due) =>
        last_run_get(lastCall.name) = lastCall.end

\* C7: should_run is true for a name with no recorded run; after a run
\* recorded at t it is true at t' exactly when t' - t >= the resolved interval.
C7_ShouldRun ==
    [][calls' = calls + 1 =>
          LET n        == lastCall'.name
              resolved == IF n = "sports" /\ lastCall'.live = "live"
                          THEN live_interval ELSE intervals[n]
          IN  lastCall'.due =
                 (n \notin DOMAIN last_run \/ now - last_run[n] >= resolved)]_vars

\* a call exactly one base interval after the recorded run, found due
C7_Witness ==
    /\ lastCall.name \notin {None, "sports"}
    /\ lastCall.prev # NoTime
    /\ lastCall.at - lastCall.prev = intervals[lastCall.name]
    /\ lastCall.due

\* C8: for sports with a recorded run, the interval of a tick is the live
\* interval iff the probe reports a live game at that tick, whatever it
\* reported at earlier ticks.
C8_ProbeIsFresh ==
    [][(calls' = calls + 1 /\ lastCall'.name = "sports"
            /\ "sports" \in DOMAIN last_run) =>
          LET liveNow == SEAHAWKS_ENABLED /\ lastCall'.probe = "live"
          IN  lastCall'.due =
                 (now - last_run["sports"] >=
                     (IF liveNow THEN live_interval ELSE intervals["sports"]))]_vars

\* the probe said live at the previous sports tick and not live at this one:
\* the base interval applies although the live interval has elapsed
C8_Witness ==
    /\ lastCall.name = "sports"
    /\ SEAHAWKS_ENABLED
    /\ lastCall.prev # NoTime
    /\ lastCall.prev_probe = "live"
    /\ lastCall.probe = "notlive"
    /\ lastCall.at - lastCall.prev >= live_interval
    /\ ~lastCall.due

(***************************************************************************)
(* Properties of the rendering hints (SpecRender)                          *)
(***************************************************************************)
\* C11: in the content handed to the renderer, each of layout, background
\* and background_query the definition specifies replaces the value of the
\* task's content, and each one it does not specify keeps the task's value.
C11_SpecifiedReplacesUnspecifiedKeeps ==
    forwarded # NoHints =>
        /\ forwarded.layout_type =
              (IF section.layout # Absent
               THEN section.layout ELSE task_content.layout_type)
        /\ forwarded.background_mode =
              (IF section.background # Absent
               THEN section.background ELSE task_content.background_mode)
        /\ forwarded.background_query =
              (IF section.background_query # Absent
               THEN section.background_query ELSE task_content.background_query)

(***************************************************************************)
(* Properties of the loader (SpecLoad)                                     *)
(***************************************************************************)
\* the names NAME for which the written value reads "${NAME}"
NamesReferred(v) ==
    {n \in SeqsUpTo(Chars, MaxValueLen) :
        v.type = "str" /\ v.s = <<"$", "{">> \o n \o <<"}">>}

IsSet(n) == n \in DOMAIN environ /\ environ[n] # NoneValue

\* C12: once load has validated the document, a value written "${NAME}" has
\* become the value of the environment variable NAME; if NAME is unset load
\* has failed with an error naming NAME; any other value is unchanged.
C12_EnvReferenceResolved ==
    (loadState # "unloaded" /\ loadException # "schedule") =>
        LET written == document[1].config.api_key
        IN  IF NamesReferred(written) # {}
            THEN \A n \in NamesReferred(written) :
                    IF IsSet(n)
                    THEN /\ loadState = "loaded"
                         /\ config[1].config.api_key = environ[n]
                    ELSE /\ loadState = "failed"
                         /\ loadException = "env"
                         /\ envError = Str(n)
            ELSE /\ loadState = "loaded"
                 /\ config[1].config.api_key = written

\* "${A}" with A=bar has become "bar"
C12_Witness ==
    /\ loadState = "loaded"
    /\ document[1].config.api_key = Str(Reference)
    /\ environ[NameA] = Str(Bar)
    /\ config[1].config.api_key = Str(Bar)

(***************************************************************************)
(* Properties of load followed by runs (SpecEnv)                           *)
(***************************************************************************)
\* what a written value resolves to in the environment of the moment
Resolved(written) ==
    IF written = Str(Reference) THEN environ[NameA] ELSE written

\* C13: references are resolved in the step that loads the document; from
\* then on the definitions' config never changes, whatever the environment
\* becomes, and every instance is handed the config its definition got at
\* load time.
C13_ResolvedOnceAtLoad ==
    [][/\ (loadState = "unloaded" /\ loadState' = "loaded") =>
            \A i \in 1..Len(document) :
                config'[i].config.api_key = Resolved(document[i].config.api_key)
       /\ loadState = "loaded" => config' = config
       /\ Len(attempts') > Len(attempts) =>
            LET a == attempts'[Len(attempts')]
            IN  a.config = DefOf(a.id).config]_vars

\* loaded with A=bar, A then set to the empty string, and two instances
\* still handed "bar"
C13_Witness ==
    /\ pc = "returned"
    /\ Len(attempts) = 2
    /\ \A i \in 1..2 :
          /\ Written(config[i]).config.api_key = Str(Reference)
          /\ attempts[i].config.api_key = Str(Bar)
    /\ environ[NameA] = Str(<<>>)

(***************************************************************************)
(* Properties of the registry (SpecReg)                                    *)
(***************************************************************************)
\* C14: registering under a key that is already registered fails, and a
\* failed registration changes nothing: every key still maps to the class
\* registered first, and no key is added or removed.
C14_DuplicateRegistrationFails ==
    [][regResult'.op = "register" =>
          /\ regResult'.type \in keys(registry) => regResult'.raised # None
          /\ regResult'.raised # None =>
                /\ keys(registry') = keys(registry)
                /\ \A k \in keys(registry) :
                      lookup(registry', k) = lookup(registry, k)
                /\ registry' = registry]_vars

\* a second class offered for a key that is taken, and refused
C14_Witness ==
    /\ regResult.op = "register"
    /\ regResult.raised = "ValueError"
    /\ issubclass_BaseSource(regResult.class)
    /\ regResult.class # lookup(registry, regResult.type)
    /\ Len(registry) >= 2

\* C15: create for an unregistered key fails with an error listing the known
\* keys; for a registered key it returns an instance of the class registered
\* under that key, carrying the id and config given; the registry is not
\* changed by it.
C15_CreateByKey ==
    [][regResult'.op = "create" =>
          /\ registry' = registry
          /\ IF \E i \in 1..Len(registry) : registry[i].type = regResult'.type
             THEN /\ regResult'.raised = None
                  /\ \E i \in 1..Len(registry) :
                        /\ registry[i].type = regResult'.type
                        /\ regResult'.instance.class = registry[i].class
                  /\ regResult'.instance.source_id = regResult'.source_id
                  /\ regResult'.instance.config = regResult'.config
             ELSE /\ regResult'.raised = "ValueError"
                  /\ {regResult'.available[i] :
                         i \in 1..Len(regResult'.available)} = keys(registry)]_vars

\* an instance made for the key registered second, with another class
\* registered first
C15_Witness ==
    /\ regResult.op = "create"
    /\ regResult.raised = None
    /\ Len(registry) >= 2
    /\ registry[2].type = regResult.type
    /\ registry[1].class # registry[2].class
    /\ regResult.instance.class = registry[2].class

\* C16: the list list_types returns holds exactly the registered keys and is
\* in sorted order whatever the order of registration.
C16_SortedSnapshot ==
    regResult.op = "list_types" =>
        /\ {listed[i] : i \in 1..Len(listed)} = keys(registry)
        /\ Len(listed) = Len(registry)
        /\ \A i, j \in 1..Len(listed) :
              i < j => rank(listed[i]) <= rank(listed[j])

(***************************************************************************)
(* Properties of the daemon loop (SpecDaemon)                              *)
(***************************************************************************)
\* C17: when run_daemon has returned after an interrupt, no generator call
\* was cut short: a call in flight when the interrupt arrived ran to its end.
C17_InFlightCallCompletes ==
    dpc = "returned" => (aborted = {} /\ inflight = None)

(***************************************************************************)
(* Retry, fallback and timeout on the run path (SpecExec)                  *)
(***************************************************************************)
\* C18: a fetch_data that failed is called again, up to the definition's
\* retry.max_attempts calls in all, before the execution is given up.
C18_FailedFetchIsRetried ==
    \A i \in 1..Len(attempts) :
        LET a == attempts[i]
        IN  (a.created /\ a.fetch.kind = "raise" /\ RetryConfig_default.enabled
                /\ RetryConfig_default.max_attempts > 1) =>
                /\ a.fetch_calls > 1
                /\ a.fetch_calls <= RetryConfig_default.max_attempts

\* C19: an execution whose fetch ran past the definition's timeout yields
\* metrics with success = false and error = "timeout".
C19_TimeoutYieldsTimeoutError ==
    \A i \in 1..Len(attempts) :
        LET a == attempts[i]
        IN  (a.created /\ a.fetch_calls > 0
                /\ a.metrics.duration_seconds > timeout_default) =>
                /\ a.metrics.success = FALSE
                /\ a.metrics.error = "timeout"

(***************************************************************************)
(* Schedules (SpecEnv)                                                     *)
(***************************************************************************)
\* the fields that are well formed at each position of a five-field cron
\* expression, among the fields that are drawn
WellFormedFields ==
    <<{"*", "0", "1"}, {"*", "0", "1"}, {"*", "1"}, {"*", "1"}, {"*", "0", "1"}>>
WellFormedCron(v) ==
    Len(v) = 5 /\ \A i \in 1..5 : v[i] \in WellFormedFields[i]

\* C20: a document holding a schedule that is not a well-formed cron
\* expression is never loaded, load fails on it in schema validation, and no
\* run is made over it; every attempt of a run is for a definition whose
\* schedule is well formed.
C20_MalformedScheduleRejectedAtLoad ==
    /\ (\E i \in 1..Len(document) : ~WellFormedCron(document[i].schedule)) =>
          /\ loadState # "loaded"
          /\ loadState = "failed" => loadException = "schedule"
          /\ pc = "idle" /\ runs = 0 /\ attempts = <<>>
    /\ \A i \in 1..Len(attempts) :
          WellFormedCron(DefOf(attempts[i].id).schedule)

\* a well-formed schedule followed by one with a minute of 99: load failed
C20_Witness ==
    /\ loadState = "failed"
    /\ loadException = "schedule"
    /\ Len(document) = 2
    /\ WellFormedCron(document[1].schedule)
    /\ document[2].schedule = <<"99", "*", "*", "*", "*">>

(***************************************************************************)
(* Properties of the entry point (SpecMain)                                *)
(***************************************************************************)
LegacyModes == {"migrate", "daemon", "batch"}

\* C21: for a path that does not exist load returns None without raising
\* and main goes on in legacy mode; load raises only for a file that exists.
C21_AbsentFileFallsBack ==
    /\ (file = "absent" /\ loadState # "unloaded") =>
          /\ loadState = "absent"
          /\ loadException = None
          /\ mode \in {"none"} \cup LegacyModes
    /\ loadState = "failed" => file \in {"malformed", "present"}
    /\ mode = "raised" => file \in {"malformed", "present"}
    /\ mode \in LegacyModes => file = "absent"

\* no sources.yaml and no flags: one legacy pass
C21_Witness ==
    /\ file = "absent"
    /\ loadState = "absent"
    /\ mode = "batch"

\* C23: with the daemon flag main starts the scheduler, whether or not a
\* sources.yaml is present.
C23_DaemonFlagStartsScheduler ==
    (argv.daemon /\ ~argv.migrate /\ mode \notin {"none", "raised"}) =>
        mode = "daemon"

(***************************************************************************)
(* The should-render hook (SpecExec)                                       *)
(***************************************************************************)
\* C25: for content returned by fetch_data, a hook answering false gives
\* null content, success = false, error = null, data_points = 0 and nothing
\* handed to the renderer; a hook answering true gives that content, success
\* = true and data_points = its number of lines, and it is rendered.
C25_HookDiscardsContent ==
    \A i \in 1..Len(attempts) :
        LET a == attempts[i]
            shown == \E j \in 1..Len(rendered) : rendered[j] = a.id
        IN  (a.created /\ a.validate = "ok" /\ a.fetch.kind = "content") =>
                IF a.hook = "suppress"
                THEN /\ a.content = NoContent
                     /\ a.metrics.success = FALSE
                     /\ a.metrics.error = None
                     /\ a.metrics.data_points = 0
                     /\ ~shown
                ELSE /\ a.content = Content(a.fetch.lines)
                     /\ a.metrics.success = TRUE
                     /\ a.metrics.data_points = a.fetch.lines
                     /\ shown

\* two lines suppressed by the hook, then two lines rendered
C25_Witness ==
    /\ Len(attempts) >= 2
    /\ attempts[1].created /\ attempts[1].fetch = Content(2)
    /\ attempts[1].hook = "suppress"
    /\ attempts[2].created /\ attempts[2].fetch = Content(2)
    /\ attempts[2].hook = "render"
    /\ rendered = <<attempts[2].id>>

C24_TickReachesEveryTask ==
    dpc # "raised"

(***************************************************************************)
(* The HTTP client and the Tesla cache (SpecReq, SpecTesla)                *)
(***************************************************************************)
\* attempts that failed, in the call so far
Failed == {k \in 1..Len(outcomes) : outcomes[k] # "ok"}

\* C26: _make_request makes at most max_retries attempts; it returns the
\* response of the first attempt that succeeds and attempts nothing after
\* it; after failed attempt k < max_retries it sleeps 2^(k-1) seconds; after
\* max_retries failures it returns None without a further sleep; it ends by
\* returning, never by raising.
C26_BoundedAttemptsWithBackoff ==
    /\ rpc \in {"idle", "attempt", "returned"}
    /\ Len(outcomes) <= max_retries
    /\ \A k \in 1..Len(outcomes) : outcomes[k] = "ok" => k = Len(outcomes) /\ rpc = "returned"
    /\ Len(sleeps) = Cardinality({k \in Failed : k < max_retries})
    /\ \A k \in 1..Len(sleeps) : k \in Failed /\ sleeps[k] = 2 ^ (k - 1)
    /\ rpc = "attempt" => attempt = Len(outcomes) + 1 /\ Failed = 1..Len(outcomes)
    /\ rpc = "returned" =>
          IF Failed = 1..Len(outcomes)
              THEN response = NoneValue /\ Len(outcomes) = max_retries
              ELSE response = Response(Len(outcomes))

C26_Witness ==
    /\ rpc = "returned"
    /\ max_retries = 3
    /\ outcomes = <<"HTTPError", "Timeout", "ok">>
    /\ sleeps = <<1, 2>>
    /\ response = Response(3)

\* calls for vehicle_id that returned data
Successful(vehicle_id) ==
    {k \in 1..Len(fetches) : fetches[k].id = vehicle_id /\ fetches[k].returned # NoneValue}

Latest(S) == CHOOSE k \in S : \A j \in S : j <= k

\* C27: get_cached_vehicle_data(id) is None when no call for id returned
\* data, and otherwise the data of the latest call for id that did, with
\* the stamp of that call: a call that returned None and a call for
\* another id leave the entry of id as it was.
C27_CacheHoldsLatestSuccessfulFetch ==
    \A vehicle_id \in VehicleIds :
        IF Successful(vehicle_id) = {}
            THEN get_cached_vehicle_data(cache_file, vehicle_id) = NoneValue
            ELSE get_cached_vehicle_data(cache_file, vehicle_id) =
                     [data |-> fetches[Latest(Successful(vehicle_id))].returned,
                      cached_at |-> fetches[Latest(Successful(vehicle_id))].at]

(***************************************************************************)
(* Archive retention and migration (SpecOut, SpecMigrate)                  *)
(***************************************************************************)
\* C29: save_image of X archives the version of X it replaces, deletes
\* archives of X only beyond the ARCHIVE_KEEP_COUNT newest, and leaves every
\* archive that came from another filename in place; an archived version
\* is never replaced by another archive.
C29_RetentionPerBaseFilename ==
    [][\A x \in Stems : SaveImage(x) =>
          /\ \A a \in archive_dir : a.stem # x => a \in archive_dir'
          /\ output_dir[x] # NoFile =>
                \E a \in archive_dir' : a.stem = x /\ a.version = output_dir[x].version
          /\ \A a \in archive_dir :
                (a.stem = x /\ a \notin archive_dir') =>
                    Cardinality({b \in archive_dir' : b.stem = x /\ b.mtime >= a.mtime})
                        >= ARCHIVE_KEEP_COUNT]_vars

\* C30: whatever the environment, the document migrate() returns passes
\* SourcesConfig, and every type in it is a registered source type.
C30_MigratedDocumentAccepted ==
    /\ mig_result # "ValidationError"
    /\ mig_document # NoDocument =>
          \A i \in 1..Len(mig_document) : mig_document[i].type \in registered_types

(***************************************************************************)
(* A failing live-event probe (SpecSched)                                  *)
(***************************************************************************)
\* C28: when the probe raises while the sports task is considered, the
\* call still comes to its decision, the probe counts as not live and the
\* decision is taken on the base interval of the task.
C28_ProbeFailureMeansNotLive ==
    (lastCall.name = "sports" /\ lastCall.probe = "raise") =>
        /\ lastCall.live = "notlive"
        /\ lastCall.due = (lastCall.at - lastCall.prev >= intervals["sports"])
        /\ lastCall.due => lastCall.outcome = "ok"

C28_Witness ==
    /\ lastCall.name = "sports"
    /\ lastCall.probe = "raise"
    /\ SEAHAWKS_ENABLED
    /\ lastCall.at - lastCall.prev >= live_interval
    /\ lastCall.at - lastCall.prev < intervals["sports"]
    /\ ~lastCall.due

====
